---- MODULE Spec2Model ----
(***************************************************************************)
(* State-machine model of contracts/src/PredictionPoolOracle.sol: the bet  *)
(* ledger, the Open/Closed/Resolving/Resolved lifecycle, the three         *)
(* settlement kinds, the randomness request/callback pair and the          *)
(* claim/withdraw payouts.  Every public function is one action whose      *)
(* guard is the conjunction of its modifiers, requires and checked-        *)
(* arithmetic panics: a transaction that reverts rolls storage and balance *)
(* back (EVM revert): under Spec it is no step of the state machine, under *)
(* SpecCalls it is a step that only raises the ghost `lastReverted`.  The  *)
(* ghost `received` sums the payments the pool made to each caller.        *)
(***************************************************************************)
EXTENDS FiniteSets, Integers, Sequences, TLC

\* ------------------------------------------------------------------ bounds
MaxOutcomes == 2          \* longest outcome list explored
MaxBets == 2              \* number of successful placeBet calls explored
MaxDepth == 2             \* deepest nesting of calls split at their transfer

\* ------------------------------------------------------- program constants
Day == 86400              \* Solidity `1 days`
BpsMax == 10000           \* upper limit of _initialProbability
FreshnessWindow == 60     \* price / chronicle reading max age in seconds

\* extendDeadline is explored while the deadline stays within two days
MaxDeadline == 2 * Day

\* --------------------------------------------------------------- input sets
Owner == "O"
Users == {"A", "B"}                      \* participants placing bets
Addr == Users \cup {Owner}               \* every msg.sender explored
Provider == "prov"                       \* providerAddress given at deployment
Providers == {Provider, "other"}         \* provider identities a callback may carry
Stake == [a \in Users |-> IF a = "A" THEN 100 ELSE 300]
Amounts(a) == {0, Stake[a]}              \* msg.value a attaches to placeBet
DaysToAdd == {1}                         \* _daysToAdd arguments
MsgValues == {0, 1}                      \* msg.value attached to resolve
UpdateFees == {0, 1}                       \* pyth.getUpdateFee quotes
EntropyFees == {1}                       \* entropy.getFee quotes
SeqNums == {1}                           \* sequence numbers requestWithCallback returns
CallbackSeqNums == {1, 2}                \* sequence numbers a callback may carry
Randoms == {1, 2}                        \* uint256(randomNumber) values
Priors == {5000, 10001}                  \* _initialProbability arguments
MaxLimits == {0, 399, 400}                    \* _maxLimit constructor arguments
Index == 0 .. (MaxOutcomes - 1)          \* keys of the index-keyed mappings

VARIABLES
    state,                  \* PoolState
    resolved,               \* bool resolved
    paused,                 \* bool paused
    deadline,               \* uint256 deadline
    winningOutcomeIndex,    \* uint256 winningOutcomeIndex
    outcomes,               \* PredictionOutcome[] (name omitted: never read by the logic)
    bets,                   \* bettors[a].bets[i]
    claimed,                \* bettors[a].claimed
    bettorsPerOutcome,      \* bettorsPerOutcome[i]
    hasBettorBetOnOutcome,  \* hasBettorBetOnOutcome[i][a]
    entropySequenceNumber,  \* uint64 entropySequenceNumber
    randomNumber,           \* uint256(randomNumber)
    balance,                \* address(this).balance
    winnerType,             \* WinnerType chosen at deployment
    settlementType,         \* SettlementType chosen at deployment
    maxLimit,               \* uint256 maxLimit chosen at deployment
    now,                    \* block.timestamp
    nBets,                  \* ghost: successful placeBet calls so far
    received,               \* ghost: total paid to each address by the pool's
                            \*        payable(msg.sender).call{value: ...}("")
    lastReverted,           \* ghost: the latest transaction reverted
    inTransfer,             \* the caller whose claimWinnings is inside its
                            \*   payable(msg.sender).call, or "none"
    preCall                 \* claimed / balance / received when that
                            \*   claimWinnings began (what a revert restores)

storage == <<state, resolved, paused, deadline, winningOutcomeIndex, outcomes,
             bets, claimed, bettorsPerOutcome, hasBettorBetOnOutcome,
             entropySequenceNumber, randomNumber>>
config == <<winnerType, settlementType, maxLimit>>
vars == <<storage, balance, config, now, nBets, received, lastReverted,
          inTransfer, preCall>>

\* ------------------------------------------------------------------ helpers
RECURSIVE SumTotalBets(_)
SumTotalBets(os) ==
    IF os = <<>> THEN 0 ELSE Head(os).totalBets + SumTotalBets(Tail(os))

RECURSIVE SumOver(_, _)
SumOver(f, S) ==
    IF S = {} THEN 0
    ELSE LET x == CHOOSE y \in S : TRUE IN f[x] + SumOver(f, S \ {x})

\* outcomes[i] with the contract's 0-based index
OutcomeAt(i) == outcomes[i + 1]

\* payable(msg.sender).call{value: amount}("")
Transfer(c, amount) == [received EXCEPT ![c] = @ + amount]

\* some claimWinnings or withdrawBet has succeeded (a withdrawal always pays
\* a positive amount, a claim always sets the claimed flag)
paidOut == \E a \in DOMAIN received : claimed[a] \/ received[a] > 0

\* _value arguments of addOutcome; value is read only by _getClosestOutcomeIndex,
\* which the Wallet settlement never calls
Values == IF settlementType = "Wallet" THEN {10} ELSE {10, 20}

\* modifier poolOpen: the state the modifier leaves before its require
PoolOpenState_IgnoresDeadline == state
PoolOpenState ==
    IF state = "Open" /\ now >= deadline THEN "Closed" ELSE state

\* modifier onlyOwner
onlyOwner_Anyone(c) == TRUE
onlyOwner(c) == c = Owner

\* modifier poolOpen: its require, evaluated after its conditional write
poolOpen_UntilResolved == ~resolved
poolOpen == PoolOpenState = "Open"

\* modifier notPaused
notPaused_Ignored == TRUE
notPaused == ~paused

\* a reverted transaction: the EVM discards every write the call made
\* (`written` is the state the call had stored when it failed) and returns
\* the attached value
RevertedState_KeepsWrite(written) == written
RevertedState(written) == state

Reverted(written) ==
    /\ state' = RevertedState(written)
    /\ lastReverted' = TRUE
    /\ UNCHANGED <<resolved, paused, deadline, winningOutcomeIndex, outcomes,
                   bets, claimed, bettorsPerOutcome, hasBettorBetOnOutcome,
                   entropySequenceNumber, randomNumber,
                   balance, config, now, nBets, received, inTransfer, preCall>>

\* ------------------------------------------------------------- constructor
Init ==
    /\ state = "Open"
    /\ resolved = FALSE
    /\ paused = FALSE
    /\ now = 0
    /\ deadline = now + 1 * Day
    /\ winningOutcomeIndex = 0
    /\ outcomes = <<>>
    /\ bets = [a \in Addr |-> [i \in Index |-> 0]]
    /\ claimed = [a \in Addr |-> FALSE]
    /\ bettorsPerOutcome = [i \in Index |-> <<>>]
    /\ hasBettorBetOnOutcome = [i \in Index |-> {}]
    /\ entropySequenceNumber = 0
    /\ randomNumber = 0
    /\ balance = 0
    /\ winnerType \in {"Proportional", "Single"}
    /\ settlementType \in {"Wallet", "Pyth", "Chronicle"}
    /\ maxLimit \in MaxLimits
    /\ nBets = 0
    /\ received = [a \in Addr |-> 0]
    /\ lastReverted = FALSE
    /\ inTransfer = "none"
    /\ preCall = <<>>

\* ---------------------------------------------------------------- addOutcome
addOutcomeRequires(c, p) ==
    /\ onlyOwner(c)
    /\ p <= BpsMax

addOutcome(c, p, v) ==
    /\ addOutcomeRequires(c, p)
    /\ Len(outcomes) < MaxOutcomes
    /\ outcomes' = Append(outcomes,
           [totalBets |-> 0, initialProbability |-> p, value |-> v])
    /\ UNCHANGED <<state, resolved, paused, deadline, winningOutcomeIndex,
                   bets, claimed, bettorsPerOutcome, hasBettorBetOnOutcome,
                   entropySequenceNumber, randomNumber,
                   balance, config, now, nBets, received>>
    /\ lastReverted' = FALSE
    /\ UNCHANGED <<inTransfer, preCall>>

\* ------------------------------------------------------------- removeOutcome
\* outcomes[_index] = outcomes[length - 1]; outcomes.pop()
SwapAndPop_PopOnly(os, i) == SubSeq(os, 1, Len(os) - 1)

SwapAndPop(os, i) ==
    SubSeq([os EXCEPT ![i + 1] = os[Len(os)]], 1, Len(os) - 1)

removeOutcomeRequires(c, i) ==
    /\ onlyOwner(c)
    /\ i < Len(outcomes)

removeOutcome(c, i) ==
    /\ removeOutcomeRequires(c, i)
    /\ outcomes' = SwapAndPop(outcomes, i)
    /\ UNCHANGED <<state, resolved, paused, deadline, winningOutcomeIndex,
                   bets, claimed, bettorsPerOutcome, hasBettorBetOnOutcome,
                   entropySequenceNumber, randomNumber,
                   balance, config, now, nBets, received>>
    /\ lastReverted' = FALSE
    /\ UNCHANGED <<inTransfer, preCall>>

\* ------------------------------------------------------------------ placeBet
\* address(this).balance already contains msg.value inside the call
WithinMaxLimit_Exclusive(v) == maxLimit > 0 => balance + v < maxLimit
WithinMaxLimit(v) == maxLimit > 0 => balance + v <= maxLimit

placeBetRequires_NoModifier(c, i, v) ==
    /\ notPaused
    /\ i < Len(outcomes)
    /\ v > 0
    /\ WithinMaxLimit(v)

placeBetRequires(c, i, v) ==
    /\ poolOpen
    /\ notPaused
    /\ i < Len(outcomes)
    /\ v > 0
    /\ WithinMaxLimit(v)

\* if (!hasBettorBetOnOutcome[_outcomeIndex][msg.sender])
\*     bettorsPerOutcome[_outcomeIndex].push(msg.sender)
RegisterBettor_Always(c, i) == [bettorsPerOutcome EXCEPT ![i] = Append(@, c)]
RegisterBettor(c, i) ==
    IF c \in hasBettorBetOnOutcome[i] THEN bettorsPerOutcome
    ELSE [bettorsPerOutcome EXCEPT ![i] = Append(@, c)]

placeBet(c, i, v) ==
    /\ placeBetRequires(c, i, v)
    /\ nBets < MaxBets
    /\ state' = PoolOpenState
    /\ bettorsPerOutcome' = RegisterBettor(c, i)
    /\ hasBettorBetOnOutcome' =
         [hasBettorBetOnOutcome EXCEPT ![i] = @ \cup {c}]
    /\ bets' = [bets EXCEPT ![c][i] = @ + v]
    /\ outcomes' = [outcomes EXCEPT ![i + 1].totalBets = @ + v]
    /\ balance' = balance + v
    /\ nBets' = nBets + 1
    /\ UNCHANGED <<resolved, paused, deadline, winningOutcomeIndex, claimed,
                   entropySequenceNumber, randomNumber, config, now, received>>
    /\ lastReverted' = FALSE
    /\ UNCHANGED <<inTransfer, preCall>>

\* ---------------------------------------------------------- getProbabilities
\* getContractBalance()
getContractBalance == balance

\* probabilities[i] for the outcome o
Probability(o) ==
    IF getContractBalance > 0
    THEN (o.totalBets * 10000) \div getContractBalance
    ELSE o.initialProbability

\* the returned array
getProbabilities == [j \in 1 .. Len(outcomes) |-> Probability(outcomes[j])]

\* ------------------------------------------------------------- closeBetting
closeBettingRequires_AnyTime(c) ==
    /\ onlyOwner(c)
    /\ state = "Open"

closeBettingRequires(c) ==
    /\ onlyOwner(c)
    /\ state = "Open"
    /\ now >= deadline

closeBetting(c) ==
    /\ closeBettingRequires(c)
    /\ state' = "Closed"
    /\ UNCHANGED <<resolved, paused, deadline, winningOutcomeIndex, outcomes,
                   bets, claimed, bettorsPerOutcome, hasBettorBetOnOutcome,
                   entropySequenceNumber, randomNumber,
                   balance, config, now, nBets, received>>
    /\ lastReverted' = FALSE
    /\ UNCHANGED <<inTransfer, preCall>>

\* -------------------------------------------------------------- togglePause
togglePause(c) ==
    /\ onlyOwner(c)
    /\ paused' = ~paused
    /\ UNCHANGED <<state, resolved, deadline, winningOutcomeIndex, outcomes,
                   bets, claimed, bettorsPerOutcome, hasBettorBetOnOutcome,
                   entropySequenceNumber, randomNumber,
                   balance, config, now, nBets, received>>
    /\ lastReverted' = FALSE
    /\ UNCHANGED <<inTransfer, preCall>>

\* ----------------------------------------------------------- extendDeadline
extendDeadlineRequires_NotPaused(c) ==
    /\ onlyOwner(c)
    /\ poolOpen
    /\ notPaused

extendDeadlineRequires(c) ==
    /\ onlyOwner(c)
    /\ poolOpen

extendDeadline(c, d) ==
    /\ extendDeadlineRequires(c)
    /\ deadline + d * Day <= MaxDeadline
    /\ state' = PoolOpenState
    /\ deadline' = deadline + d * Day
    /\ UNCHANGED <<resolved, paused, winningOutcomeIndex, outcomes,
                   bets, claimed, bettorsPerOutcome, hasBettorBetOnOutcome,
                   entropySequenceNumber, randomNumber,
                   balance, config, now, nBets, received>>
    /\ lastReverted' = FALSE
    /\ UNCHANGED <<inTransfer, preCall>>

\* ------------------------------------------------------------ oracle reads
UintBits == 20            \* width standing in for uint256 (TLC integers are 32-bit)
UintModulus == 2 ^ UintBits
UintMax == UintModulus - 1               \* type(uint256).max

PythPrices == {-1, 0, 12}                \* price.price mantissas the oracle returns
PythExpos == {-1, 0, 1}                  \* price.expo exponents the oracle returns
ChronicleValues == {0, 15, 16}           \* chronicle.readWithAge values
AgeLags == {0, 61}                       \* now - age of a chronicle reading

\* what the external oracle answers during one resolve call
OracleReads ==
    IF settlementType = "Pyth"
    THEN [updateFee : UpdateFees, price : PythPrices, expo : PythExpos, fresh : BOOLEAN]
    ELSE IF settlementType = "Chronicle"
    THEN [value : ChronicleValues, lag : AgeLags]
    ELSE {[none |-> TRUE]}

RECURSIVE Pow10(_)
Pow10(n) == IF n = 0 THEN 1 ELSE 10 * Pow10(n - 1)

\* uint256(int256(priceValue)): two's-complement reinterpretation
AsUint(m) == IF m >= 0 THEN m ELSE UintModulus + m

\* _toUint256Price, before the checked multiplication's overflow test
ToUint256PriceRaw(m, e) ==
    IF e < 0 THEN AsUint(m) * Pow10(-e) ELSE AsUint(m) \div Pow10(e)

\* checked arithmetic: the multiplication panics when the product leaves uint256
ToUint256PriceOverflows(m, e) == ToUint256PriceRaw(m, e) > UintMax

\* if (difference < smallestDifference)
Closer_OrEqual(difference, smallestDifference) == difference <= smallestDifference
Closer(difference, smallestDifference) == difference < smallestDifference

\* the loop of _getClosestOutcomeIndex from index i on
RECURSIVE ClosestLoop(_, _, _, _)
ClosestLoop(i, closestIndex, smallestDifference, oracleValue) ==
    IF i >= Len(outcomes) THEN closestIndex
    ELSE LET outcomeValue == OutcomeAt(i).value
             difference == IF oracleValue > outcomeValue
                           THEN oracleValue - outcomeValue
                           ELSE outcomeValue - oracleValue
         IN IF Closer(difference, smallestDifference)
            THEN ClosestLoop(i + 1, i, difference, oracleValue)
            ELSE ClosestLoop(i + 1, closestIndex, smallestDifference, oracleValue)

GetClosestOutcomeIndex(oracleValue) == ClosestLoop(0, 0, UintMax, oracleValue)

\* uint256 oracleValue of _resolveWithPyth / _resolveWithChronicle
OracleValue(orc) ==
    IF settlementType = "Pyth" THEN ToUint256PriceRaw(orc.price, orc.expo)
    ELSE orc.value

\* ------------------------------------------------------------------ resolve
\* requires of the chosen settlement path (after onlyOwner / Closed / !resolved)
SettlementOk(k, v, orc) ==
    IF settlementType = "Wallet" THEN k < Len(outcomes)
    ELSE IF settlementType = "Pyth"
    THEN /\ v >= orc.updateFee
         /\ orc.fresh
         /\ ~ToUint256PriceOverflows(orc.price, orc.expo)
    ELSE (now - orc.lag) + FreshnessWindow >= now

\* the winning index the chosen settlement path stores
SettlementWinner_First(k, orc) ==
    IF settlementType = "Wallet" THEN 0
    ELSE IF settlementType = "Pyth"
    THEN GetClosestOutcomeIndex(ToUint256PriceRaw(orc.price, orc.expo))
    ELSE GetClosestOutcomeIndex(orc.value)

SettlementWinner(k, orc) ==
    IF settlementType = "Wallet" THEN k
    ELSE IF settlementType = "Pyth"
    THEN GetClosestOutcomeIndex(ToUint256PriceRaw(orc.price, orc.expo))
    ELSE GetClosestOutcomeIndex(orc.value)

\* address(this).balance when _afterResolve starts
BalanceAtAfterResolve(v, orc) ==
    IF settlementType = "Pyth" THEN balance + v - orc.updateFee ELSE balance + v

\* _afterResolve: state it leaves
AfterResolveState_Reopens == IF winnerType = "Single" THEN "Open" ELSE "Resolved"
AfterResolveState == IF winnerType = "Single" THEN "Resolving" ELSE "Resolved"

\* require(state == PoolState.Closed, ...); require(!resolved, ...)
ResolveStateOk_AnyUnresolved == ~resolved
ResolveStateOk == state = "Closed" /\ ~resolved

\* address(this).balance after entropy.requestWithCallback{value: requestFee}
BalanceAfterRequest_FeeKept(v, orc, requestFee) == BalanceAtAfterResolve(v, orc)
BalanceAfterRequest(v, orc, requestFee) == BalanceAtAfterResolve(v, orc) - requestFee

resolveRequires(c, k, v, orc, requestFee) ==
    /\ onlyOwner(c)
    /\ ResolveStateOk
    /\ SettlementOk(k, v, orc)
    /\ (winnerType = "Single" => BalanceAtAfterResolve(v, orc) >= requestFee)

resolve(c, k, v, orc, requestFee, seq) ==
    /\ resolveRequires(c, k, v, orc, requestFee)
    /\ winningOutcomeIndex' = SettlementWinner(k, orc)
    /\ state' = AfterResolveState
    /\ IF winnerType = "Single"
       THEN /\ entropySequenceNumber' = seq
            /\ balance' = BalanceAfterRequest(v, orc, requestFee)
            /\ UNCHANGED resolved
       ELSE /\ resolved' = TRUE
            /\ balance' = BalanceAtAfterResolve(v, orc)
            /\ UNCHANGED entropySequenceNumber
    /\ UNCHANGED <<paused, deadline, outcomes, bets, claimed,
                   bettorsPerOutcome, hasBettorBetOnOutcome, randomNumber,
                   config, now, nBets, received>>
    /\ lastReverted' = FALSE
    /\ UNCHANGED <<inTransfer, preCall>>

\* ---------------------------------------------------------- entropyCallback
entropyCallbackRequires_AnyProvider(seq, prov) ==
    /\ state = "Resolving"
    /\ ~resolved
    /\ seq = entropySequenceNumber

entropyCallbackRequires(seq, prov) ==
    /\ state = "Resolving"
    /\ ~resolved
    /\ seq = entropySequenceNumber
    /\ prov = Provider

entropyCallback(seq, prov, rnd) ==
    /\ entropyCallbackRequires(seq, prov)
    /\ randomNumber' = rnd
    /\ state' = "Resolved"
    /\ resolved' = TRUE
    /\ UNCHANGED <<paused, deadline, winningOutcomeIndex, outcomes, bets,
                   claimed, bettorsPerOutcome, hasBettorBetOnOutcome,
                   entropySequenceNumber, balance, config, now, nBets, received>>
    /\ lastReverted' = FALSE
    /\ UNCHANGED <<inTransfer, preCall>>

\* ------------------------------------------------------------ claimWinnings
\* payout = (winningBet * totalPoolBets) / totalWinningBets
ProportionalPayout_StakeOnly(c) == bets[c][winningOutcomeIndex]
ProportionalPayout(c) ==
    (bets[c][winningOutcomeIndex] * balance)
        \div OutcomeAt(winningOutcomeIndex).totalBets

\* potentialWinners[uint256(randomNumber) % potentialWinners.length]
selectRandomWinner_First == bettorsPerOutcome[winningOutcomeIndex][1]
selectRandomWinner ==
    LET potentialWinners == bettorsPerOutcome[winningOutcomeIndex]
    IN potentialWinners[(randomNumber % Len(potentialWinners)) + 1]

\* require(state == PoolState.Resolved, ...)
ClaimStateOk_WhileResolving == state \in {"Resolving", "Resolved"}
ClaimStateOk == state = "Resolved"

\* require(!bettors[msg.sender].claimed, ...)
ClaimNotYetClaimed_Unchecked(c) == TRUE
ClaimNotYetClaimed(c) == ~claimed[c]

\* require(winningBet > 0, ...)
ClaimHasWinningBet_Unchecked(c) == TRUE
ClaimHasWinningBet(c) == bets[c][winningOutcomeIndex] > 0

\* the policy branch: array bounds check and division of the Proportional
\* payout, the two requires of the Single payout
ClaimPolicyOk(c) ==
    IF winnerType = "Proportional"
    THEN /\ winningOutcomeIndex < Len(outcomes)
         /\ OutcomeAt(winningOutcomeIndex).totalBets # 0
    ELSE /\ Len(bettorsPerOutcome[winningOutcomeIndex]) > 0
         /\ c = selectRandomWinner

\* the requires and panics of claimWinnings before the transfer
ClaimAllowed(c) ==
    /\ ClaimStateOk
    /\ ClaimNotYetClaimed(c)
    /\ ClaimHasWinningBet(c)
    /\ ClaimPolicyOk(c)

ClaimPayout(c) ==
    IF winnerType = "Proportional" THEN ProportionalPayout(c) ELSE balance

\* accepts: whether the recipient takes the transfer
claimWinningsRequires(c, accepts) ==
    /\ ClaimAllowed(c)
    /\ ClaimPayout(c) <= balance
    /\ accepts

claimWinnings(c, accepts) ==
    /\ claimWinningsRequires(c, accepts)
    /\ claimed' = [claimed EXCEPT ![c] = TRUE]
    /\ balance' = balance - ClaimPayout(c)
    /\ received' = Transfer(c, ClaimPayout(c))
    /\ UNCHANGED <<state, resolved, paused, deadline, winningOutcomeIndex,
                   outcomes, bets, bettorsPerOutcome, hasBettorBetOnOutcome,
                   entropySequenceNumber, randomNumber, config, now, nBets>>
    /\ lastReverted' = FALSE
    /\ UNCHANGED <<inTransfer, preCall>>

\* -------------------------------------------------------------- withdrawBet
\* the loop runs over the current outcome list only
WithdrawIndices == {i \in Index : i < Len(outcomes)}

WithdrawTotal(c) == SumOver(bets[c], WithdrawIndices)

\* outcomes[i].totalBets -= betAmount panics on underflow
WithdrawUnderflows(c) ==
    \E i \in WithdrawIndices : bets[c][i] > OutcomeAt(i).totalBets

\* require(state == PoolState.Closed, ...); require(!resolved, ...)
WithdrawStateOk_AnyUnresolved == ~resolved
WithdrawStateOk == state = "Closed" /\ ~resolved

\* the requires and panics of withdrawBet before the transfer
WithdrawAllowed(c) ==
    /\ WithdrawStateOk
    /\ ~WithdrawUnderflows(c)
    /\ WithdrawTotal(c) > 0

withdrawBetRequires(c, accepts) ==
    /\ WithdrawAllowed(c)
    /\ WithdrawTotal(c) <= balance
    /\ accepts

withdrawBet(c, accepts) ==
    /\ withdrawBetRequires(c, accepts)
    /\ bets' = [bets EXCEPT ![c] =
                   [i \in Index |-> IF i \in WithdrawIndices THEN 0 ELSE @[i]]]
    /\ outcomes' = [j \in 1 .. Len(outcomes) |->
                       [outcomes[j] EXCEPT !.totalBets = @ - bets[c][j - 1]]]
    /\ balance' = balance - WithdrawTotal(c)
    /\ received' = Transfer(c, WithdrawTotal(c))
    /\ UNCHANGED <<state, resolved, paused, deadline, winningOutcomeIndex,
                   claimed, bettorsPerOutcome, hasBettorBetOnOutcome,
                   entropySequenceNumber, randomNumber, config, now, nBets>>
    /\ lastReverted' = FALSE
    /\ UNCHANGED <<inTransfer, preCall>>

\* ------------------------------------------------------- passage of time
\* The code reads block.timestamp only to compare it with deadline (and with the
\* age of a chronicle reading, given relative to it), so one block before the
\* deadline and the block at which the deadline is reached stand for all times.
Tick ==
    /\ now < deadline
    /\ now' = deadline
    /\ UNCHANGED <<storage, balance, config, nBets, received, lastReverted,
                   inTransfer, preCall>>

\* ------------------------------------------------------- reverting calls
\* some call of the function (not every call succeeds) fails a modifier, a
\* require or a checked arithmetic operation; poolOpen has written its state
\* by then
addOutcomeReverts ==
    /\ ~ \A c \in Addr, p \in Priors : addOutcomeRequires(c, p)
    /\ Reverted(state)

removeOutcomeReverts ==
    /\ ~ \A c \in Addr, i \in 0 .. MaxOutcomes : removeOutcomeRequires(c, i)
    /\ Reverted(state)

placeBetReverts ==
    /\ ~ \A c \in Users, i \in 0 .. MaxOutcomes :
          \A v \in Amounts(c) : placeBetRequires(c, i, v)
    /\ Reverted(PoolOpenState)

closeBettingReverts ==
    /\ ~ \A c \in Addr : closeBettingRequires(c)
    /\ Reverted(state)

togglePauseReverts ==
    /\ ~ \A c \in Addr : onlyOwner(c)
    /\ Reverted(state)

extendDeadlineReverts ==
    /\ ~ \A c \in Addr : extendDeadlineRequires(c)
    /\ Reverted(PoolOpenState)

resolveReverts ==
    /\ ~ \A c \in Addr, k \in 0 .. MaxOutcomes, v \in MsgValues, orc \in OracleReads,
          f \in EntropyFees : resolveRequires(c, k, v, orc, f)
    /\ Reverted(state)

entropyCallbackReverts ==
    /\ ~ \A s \in CallbackSeqNums, p \in Providers : entropyCallbackRequires(s, p)
    /\ Reverted(state)

claimWinningsReverts ==
    /\ ~ \A c \in Addr, a \in BOOLEAN : claimWinningsRequires(c, a)
    /\ Reverted(state)

withdrawBetReverts ==
    /\ ~ \A c \in Addr, a \in BOOLEAN : withdrawBetRequires(c, a)
    /\ Reverted(state)

\* ---------------------------------------------------------- specification
Next ==
    \/ \E c \in Addr, p \in Priors, v \in Values : addOutcome(c, p, v)
    \/ \E c \in Addr, i \in 0 .. MaxOutcomes : removeOutcome(c, i)
    \/ \E c \in Users, i \in 0 .. MaxOutcomes : \E v \in Amounts(c) : placeBet(c, i, v)
    \/ \E c \in Addr : closeBetting(c)
    \/ \E c \in Addr : togglePause(c)
    \/ \E c \in Addr, d \in DaysToAdd : extendDeadline(c, d)
    \/ \E c \in Addr, k \in 0 .. MaxOutcomes, v \in MsgValues, orc \in OracleReads,
          f \in EntropyFees, s \in SeqNums : resolve(c, k, v, orc, f, s)
    \/ \E s \in CallbackSeqNums, p \in Providers, r \in Randoms : entropyCallback(s, p, r)
    \/ \E c \in Addr, a \in BOOLEAN : claimWinnings(c, a)
    \/ \E c \in Addr, a \in BOOLEAN : withdrawBet(c, a)
    \/ Tick

Spec == Init /\ [][Next]_vars

\* the same machine with the reverting transactions as steps
NextCalls ==
    \/ Next
    \/ addOutcomeReverts
    \/ removeOutcomeReverts
    \/ placeBetReverts
    \/ closeBettingReverts
    \/ togglePauseReverts
    \/ extendDeadlineReverts
    \/ resolveReverts
    \/ entropyCallbackReverts
    \/ claimWinningsReverts
    \/ withdrawBetReverts

\* owner-declared pools without a stake cap, both winner policies
InitWallet == Init /\ settlementType = "Wallet" /\ maxLimit = 0
SpecWallet == InitWallet /\ [][Next]_vars

\* owner-declared pools: uncapped, and capped at 399 and at 400
InitCap == Init /\ settlementType = "Wallet"
SpecCap == InitCap /\ [][Next]_vars

\* owner-declared pools with the reverting transactions as steps
SpecCalls == InitWallet /\ [][NextCalls]_vars

\* oracle-settled pools (push and pull) that nobody stakes on: the owner's
\* calls that build the outcome list and settle the pool, and the callback
InitOracle == Init /\ settlementType \in {"Pyth", "Chronicle"} /\ maxLimit = 0

NextSettle ==
    \/ \E c \in Addr, p \in Priors, v \in Values : addOutcome(c, p, v)
    \/ \E c \in Addr, i \in 0 .. MaxOutcomes : removeOutcome(c, i)
    \/ \E c \in Addr : closeBetting(c)
    \/ \E c \in Addr, k \in 0 .. MaxOutcomes, v \in MsgValues, orc \in OracleReads,
          f \in EntropyFees, s \in SeqNums : resolve(c, k, v, orc, f, s)
    \/ \E s \in CallbackSeqNums, p \in Providers, r \in Randoms : entropyCallback(s, p, r)
    \/ Tick

SpecSettle == InitOracle /\ [][NextSettle]_vars

\* owner-declared Proportional pools, capped and uncapped, under the calls
\* the contract shares with the legacy PredictionPool
InitLegacy == Init /\ settlementType = "Wallet" /\ winnerType = "Proportional"

NextShared ==
    \/ \E c \in Addr, p \in Priors, v \in Values : addOutcome(c, p, v)
    \/ \E c \in Addr, i \in 0 .. MaxOutcomes : removeOutcome(c, i)
    \/ \E c \in Users, i \in 0 .. MaxOutcomes : \E v \in Amounts(c) : placeBet(c, i, v)
    \/ \E c \in Addr : closeBetting(c)
    \/ \E c \in Addr : togglePause(c)
    \/ \E c \in Addr, d \in DaysToAdd : extendDeadline(c, d)
    \/ \E c \in Addr, k \in 0 .. MaxOutcomes, v \in MsgValues, orc \in OracleReads,
          f \in EntropyFees, s \in SeqNums : resolve(c, k, v, orc, f, s)
    \/ \E c \in Addr, a \in BOOLEAN : claimWinnings(c, a)
    \/ \E c \in Addr, a \in BOOLEAN : withdrawBet(c, a)
    \/ Tick

SpecLegacy == InitLegacy /\ [][NextShared]_vars

\* push-oracle pools with the reverting transactions as steps
InitCallsPyth == Init /\ settlementType = "Pyth" /\ maxLimit = 0
SpecCallsPyth == InitCallsPyth /\ [][NextCalls]_vars

\* ----------------------------------------------- transfers in progress
\* claimWinnings and withdrawBet split at their external call: the checks and
\* the writes, then payable(msg.sender).call{value: ...}(""), during which
\* the recipient's code runs and calls into the pool can be made, then
\* require(success, ...)

\* bettor.claimed = true; is executed before the call
ClaimedBeforeTransfer_After(c) == claimed
ClaimedBeforeTransfer(c) == [claimed EXCEPT ![c] = TRUE]

\* the number of claimWinnings and withdrawBet calls that are inside their
\* transfer, each one made from inside the transfer of the one before
CallDepth == IF inTransfer = "none" THEN 0 ELSE preCall.depth

\* what a revert of the call fn restores: the storage, the balance and the
\* payments as they were when it began; and the call it was made from, if any
BeforeCall(fn) ==
    [call |-> fn,
     depth |-> CallDepth + 1,
     outerTransfer |-> inTransfer,
     outerCall |-> preCall,
     state |-> state,
     resolved |-> resolved,
     paused |-> paused,
     deadline |-> deadline,
     winningOutcomeIndex |-> winningOutcomeIndex,
     outcomes |-> outcomes,
     bets |-> bets,
     claimed |-> claimed,
     bettorsPerOutcome |-> bettorsPerOutcome,
     hasBettorBetOnOutcome |-> hasBettorBetOnOutcome,
     entropySequenceNumber |-> entropySequenceNumber,
     randomNumber |-> randomNumber,
     balance |-> balance,
     received |-> received,
     nBets |-> nBets]

\* the EVM discards every write made since the call began, those of
\* the calls nested in it included
RolledBack ==
    /\ state' = preCall.state
    /\ resolved' = preCall.resolved
    /\ paused' = preCall.paused
    /\ deadline' = preCall.deadline
    /\ winningOutcomeIndex' = preCall.winningOutcomeIndex
    /\ outcomes' = preCall.outcomes
    /\ bets' = preCall.bets
    /\ claimed' = preCall.claimed
    /\ bettorsPerOutcome' = preCall.bettorsPerOutcome
    /\ hasBettorBetOnOutcome' = preCall.hasBettorBetOnOutcome
    /\ entropySequenceNumber' = preCall.entropySequenceNumber
    /\ randomNumber' = preCall.randomNumber
    /\ balance' = preCall.balance
    /\ received' = preCall.received
    /\ nBets' = preCall.nBets

\* c's claimWinnings runs up to the call: the value has left the pool and
\* the recipient's code has control
claimWinningsCall(c) ==
    /\ CallDepth < MaxDepth
    /\ ClaimAllowed(c)
    /\ ClaimPayout(c) <= balance
    /\ claimed' = ClaimedBeforeTransfer(c)
    /\ balance' = balance - ClaimPayout(c)
    /\ received' = Transfer(c, ClaimPayout(c))
    /\ inTransfer' = c
    /\ preCall' = BeforeCall("claimWinnings")
    /\ lastReverted' = FALSE
    /\ UNCHANGED <<state, resolved, paused, deadline, winningOutcomeIndex,
                   outcomes, bets, bettorsPerOutcome, hasBettorBetOnOutcome,
                   entropySequenceNumber, randomNumber, config, now, nBets>>

\* c's withdrawBet runs up to the call: the stakes are zeroed, the totals
\* lowered, the value has left the pool and the recipient's code has control
withdrawBetCall(c) ==
    /\ CallDepth < MaxDepth
    /\ WithdrawAllowed(c)
    /\ WithdrawTotal(c) <= balance
    /\ bets' = [bets EXCEPT ![c] =
                   [i \in Index |-> IF i \in WithdrawIndices THEN 0 ELSE @[i]]]
    /\ outcomes' = [j \in 1 .. Len(outcomes) |->
                       [outcomes[j] EXCEPT !.totalBets = @ - bets[c][j - 1]]]
    /\ balance' = balance - WithdrawTotal(c)
    /\ received' = Transfer(c, WithdrawTotal(c))
    /\ inTransfer' = c
    /\ preCall' = BeforeCall("withdrawBet")
    /\ lastReverted' = FALSE
    /\ UNCHANGED <<state, resolved, paused, deadline, winningOutcomeIndex,
                   claimed, bettorsPerOutcome, hasBettorBetOnOutcome,
                   entropySequenceNumber, randomNumber, config, now, nBets>>

\* a whole transaction made from inside the transfer (by the recipient's
\* code, or by a contract it calls): it runs in the same block against the
\* storage as the outer call left it
NestedCall ==
    /\ inTransfer # "none"
    /\ Next
    /\ now' = now

\* the recipient calls claimWinnings again from inside the transfer: the
\* inner call pays again when its requires pass and its own transfer is
\* accepted, and reverts otherwise
claimWinningsReentered(c, accepts) ==
    /\ inTransfer = c
    /\ IF claimWinningsRequires(c, accepts)
       THEN /\ claimed' = [claimed EXCEPT ![c] = TRUE]
            /\ balance' = balance - ClaimPayout(c)
            /\ received' = Transfer(c, ClaimPayout(c))
            /\ lastReverted' = FALSE
       ELSE /\ lastReverted' = TRUE
            /\ UNCHANGED <<claimed, balance, received>>
    /\ UNCHANGED <<state, resolved, paused, deadline, winningOutcomeIndex,
                   outcomes, bets, bettorsPerOutcome, hasBettorBetOnOutcome,
                   entropySequenceNumber, randomNumber, config, now, nBets,
                   inTransfer, preCall>>

\* the recipient calls withdrawBet again from inside the transfer: the inner
\* call pays again when its requires pass and its own transfer is accepted,
\* and reverts otherwise
withdrawBetReentered(c, accepts) ==
    /\ inTransfer = c
    /\ IF withdrawBetRequires(c, accepts)
       THEN /\ bets' = [bets EXCEPT ![c] =
                   [i \in Index |-> IF i \in WithdrawIndices THEN 0 ELSE @[i]]]
            /\ outcomes' = [j \in 1 .. Len(outcomes) |->
                       [outcomes[j] EXCEPT !.totalBets = @ - bets[c][j - 1]]]
            /\ balance' = balance - WithdrawTotal(c)
            /\ received' = Transfer(c, WithdrawTotal(c))
            /\ lastReverted' = FALSE
       ELSE /\ lastReverted' = TRUE
            /\ UNCHANGED <<bets, outcomes, balance, received>>
    /\ UNCHANGED <<state, resolved, paused, deadline, winningOutcomeIndex,
                   claimed, bettorsPerOutcome, hasBettorBetOnOutcome,
                   entropySequenceNumber, randomNumber, config, now, nBets,
                   inTransfer, preCall>>

\* the call returns; require(success, "Transfer failed.") reverts the whole
\* claimWinnings when the recipient did not take the transfer; control goes
\* back to where the claimWinnings was called from
claimWinningsReturn(c, success) ==
    /\ inTransfer = c
    /\ preCall.call = "claimWinnings"
    /\ IF success
       THEN /\ claimed' = [claimed EXCEPT ![c] = TRUE]
            /\ lastReverted' = FALSE
            /\ UNCHANGED <<state, resolved, paused, deadline,
                           winningOutcomeIndex, outcomes, bets,
                           bettorsPerOutcome, hasBettorBetOnOutcome,
                           entropySequenceNumber, randomNumber, balance,
                           received, nBets>>
       ELSE /\ RolledBack
            /\ lastReverted' = TRUE
    /\ inTransfer' = preCall.outerTransfer
    /\ preCall' = preCall.outerCall
    /\ UNCHANGED <<config, now>>

\* the same for withdrawBet
withdrawBetReturn(c, success) ==
    /\ inTransfer = c
    /\ preCall.call = "withdrawBet"
    /\ IF success
       THEN /\ lastReverted' = FALSE
            /\ UNCHANGED <<storage, balance, received, nBets>>
       ELSE /\ RolledBack
            /\ lastReverted' = TRUE
    /\ inTransfer' = preCall.outerTransfer
    /\ preCall' = preCall.outerCall
    /\ UNCHANGED <<config, now>>

\* whole transactions while no transfer is in progress, the steps of a
\* claimWinnings or withdrawBet whose recipient is a contract, and the
\* calls made from inside its transfer: whole ones, and up to MaxDepth deep
\* ones that are split at their own transfer
NextReentrant ==
    \/ inTransfer = "none" /\ Next
    \/ NestedCall
    \/ \E c \in Addr : claimWinningsCall(c)
    \/ \E c \in Addr : withdrawBetCall(c)
    \/ \E c \in Addr, a \in BOOLEAN : claimWinningsReentered(c, a)
    \/ \E c \in Addr, a \in BOOLEAN : withdrawBetReentered(c, a)
    \/ \E c \in Addr, ok \in BOOLEAN : claimWinningsReturn(c, ok)
    \/ \E c \in Addr, ok \in BOOLEAN : withdrawBetReturn(c, ok)

SpecReentrant == InitWallet /\ [][NextReentrant]_vars

\* ------------------------------------------------------ transaction steps
\* a successful claimWinnings / withdrawBet transaction sent by c
ClaimStep(c) == \E a \in BOOLEAN : claimWinnings(c, a)
WithdrawStep(c) == \E a \in BOOLEAN : withdrawBet(c, a)

\* position of a state in enum PoolState { Open, Closed, Resolving, Resolved }
StateRank(s) ==
    CASE s = "Open" -> 0 [] s = "Closed" -> 1 [] s = "Resolving" -> 2 [] s = "Resolved" -> 3

\* ------------------------------------------------------------------ claims

\* C1: the stored state only moves forward along Open -> Closed ->
\* (Resolving ->) Resolved: no step lowers it, Resolving is entered only from
\* Closed, and Resolved is never left.
C1_StateMonotonic ==
    [][ /\ StateRank(state) <= StateRank(state')
        /\ (state' = "Resolving" /\ state # "Resolving" => state = "Closed")
        /\ (state = "Resolved" => state' = "Resolved") ]_vars

\* a Single pool that went through Resolving and was resolved by the callback
C1_Witness ==
    /\ winnerType = "Single"
    /\ state = "Resolved"
    /\ randomNumber # 0

\* C2 (as claimed): before any claim or withdrawal has succeeded, the pool
\* balance equals the sum of totalBets over the current outcomes.
C2_BalanceEqualsStakes ==
    ~paidOut => balance = SumTotalBets(outcomes)

\* C3: once claimed[c] is true it stays true, no later step pays c anything,
\* and no claimWinnings by c succeeds again.
C3_NoSecondPayout ==
    [][ \A c \in Addr :
          claimed[c] => /\ claimed'[c]
                        /\ received'[c] = received[c]
                        /\ ~ClaimStep(c) ]_vars

\* some caller has claimed and been paid while funds remain in the pool
C3_Witness ==
    \E c \in Addr : claimed[c] /\ received[c] > 0 /\ balance > 0

\* the two stakes and the outcome list of Scenario A, resolved to outcome 1
\* by the owner with nothing attached, so that 400 was held at resolution
ScenarioA ==
    /\ winnerType = "Proportional"
    /\ settlementType = "Wallet"
    /\ state = "Resolved"
    /\ winningOutcomeIndex = 1
    /\ Len(outcomes) = 2
    /\ OutcomeAt(0).totalBets = 0
    /\ OutcomeAt(1).totalBets = 400
    /\ bets["A"] = [i \in Index |-> IF i = 1 THEN 100 ELSE 0]
    /\ bets["B"] = [i \in Index |-> IF i = 1 THEN 300 ELSE 0]
    /\ balance + received["A"] + received["B"] = 400

\* C4 (as claimed): in Scenario A, A's claim pays exactly 100 and B's claim
\* pays exactly 300, whichever of the two is executed first.
C4_ScenarioAPayouts ==
    ScenarioA => /\ (claimed["A"] => received["A"] = 100)
                 /\ (claimed["B"] => received["B"] = 300)

\* C5: in a Proportional pool a successful claimWinnings by c pays c exactly
\* floor(stake(c, winner) * balance / totalBets(winner)) and lowers the pool
\* balance by that amount.
C5_ProportionalPayout ==
    [][ \A c \in Addr :
          (winnerType = "Proportional" /\ ClaimStep(c)) =>
             LET due == (bets[c][winningOutcomeIndex] * balance)
                           \div OutcomeAt(winningOutcomeIndex).totalBets
             IN /\ received'[c] = received[c] + due
                /\ balance' = balance - due ]_vars

\* a Proportional claim has paid a share smaller than the whole balance
C5_Witness ==
    /\ winnerType = "Proportional"
    /\ \E c \in Addr : claimed[c] /\ received[c] > 0 /\ balance > 0

\* C6: in a Single pool claimWinnings succeeds only for the participant at
\* index (random value mod list length) of the winning outcome's participant
\* list; that claim pays the whole pool balance, and nobody else has claimed
\* before it or claims after it.
C6_SingleWinnerTakesAll ==
    [][ \A c \in Addr :
          (winnerType = "Single" /\ ClaimStep(c)) =>
             LET L == bettorsPerOutcome[winningOutcomeIndex]
             IN /\ Len(L) > 0
                /\ c = L[(randomNumber % Len(L)) + 1]
                /\ received'[c] = received[c] + balance
                /\ balance' = 0
                /\ \A d \in Addr \ {c} : ~claimed[d] /\ ~claimed'[d] ]_vars

\* two participants on the winning outcome, the second one selected and paid
C6_Witness ==
    /\ winnerType = "Single"
    /\ Len(bettorsPerOutcome[winningOutcomeIndex]) = 2
    /\ randomNumber % 2 = 1
    /\ claimed[bettorsPerOutcome[winningOutcomeIndex][2]]
    /\ received[bettorsPerOutcome[winningOutcomeIndex][2]] > 0

\* C7: claimWinnings never succeeds for a caller whose recorded stake on
\* winningOutcomeIndex is zero, under either winner policy: whoever has
\* claimed holds a positive stake on the winning index (stakes and winner
\* index are frozen once the pool is Resolved).
C7_NoStakeNoClaim ==
    \A c \in Addr : claimed[c] => bets[c][winningOutcomeIndex] > 0

\* Scenario B: a resolved pool in which somebody staked only on a losing
\* outcome (and so cannot claim) while a winner has claimed
C7_Witness ==
    /\ state = "Resolved"
    /\ \E c \in Users :
          /\ bets[c][winningOutcomeIndex] = 0
          /\ \E i \in Index : bets[c][i] > 0
          /\ ~claimed[c]
          /\ received[c] = 0
    /\ \E d \in Users : claimed[d]

\* C8: claimWinnings succeeds only in state Resolved: never in Open, Closed
\* or Resolving.
C8_ClaimOnlyWhenResolved ==
    \A c \in Addr : claimed[c] => state = "Resolved"

\* a Single pool waiting for its callback: the winner index is recorded and a
\* participant holds a stake on it, yet nothing has been paid
C8_Witness ==
    /\ state = "Resolving"
    /\ \E c \in Users : bets[c][winningOutcomeIndex] > 0
    /\ ~paidOut

\* C9: withdrawBet succeeds only when the stored state is Closed and resolved
\* is false.
C9_WithdrawOnlyWhenClosed ==
    [][ \A c \in Addr : WithdrawStep(c) => state = "Closed" /\ ~resolved ]_vars

\* a withdrawal has been paid in a Closed, unresolved pool
C9_Witness ==
    /\ state = "Closed"
    /\ ~resolved
    /\ \E c \in Users : received[c] > 0

\* C10 (as claimed): a successful withdrawBet by c pays c the sum of all of
\* c's recorded stakes, zeroes each of them, lowers each outcome's totalBets
\* by c's stake on it and leaves the other stakes, the claimed flags and the
\* state unchanged.
C10_WithdrawRefundsEverything ==
    [][ \A c \in Addr :
          WithdrawStep(c) =>
             /\ received'[c] = received[c] + SumOver(bets[c], Index)
             /\ \A i \in Index : bets'[c][i] = 0
             /\ \A i \in WithdrawIndices :
                    OutcomeAt(i).totalBets - bets[c][i] = outcomes'[i + 1].totalBets
             /\ \A d \in Addr \ {c} : bets'[d] = bets[d]
             /\ claimed' = claimed
             /\ state' = state ]_vars

\* C11: no placeBet step exists unless the pool is Open before its deadline
\* and not paused; in such a pool placeBet(i) with v attached succeeds only
\* for a valid index i, v > 0 and within the cap, and no step exists when one
\* of these is violated; a successful placeBet adds exactly v to the caller's
\* stake on i, to outcomes[i].totalBets and to the balance and changes no
\* other stake and no other total.
C11_PlaceBet ==
    /\ [] IF state # "Open" \/ now >= deadline \/ paused
          THEN ~ENABLED (\E c \in Users, i \in 0 .. MaxOutcomes :
                           \E v \in Amounts(c) : placeBet(c, i, v))
          ELSE \A c \in Users, i \in 0 .. MaxOutcomes : \A v \in Amounts(c) :
                  (\/ i >= Len(outcomes) \/ v = 0
                   \/ (maxLimit > 0 /\ balance + v > maxLimit))
                  => ~ENABLED placeBet(c, i, v)
    /\ [][ (state = "Open" /\ now < deadline /\ ~paused) =>
             \A c \in Users, i \in 0 .. MaxOutcomes : \A v \in Amounts(c) :
                placeBet(c, i, v) =>
                   /\ i < Len(outcomes) /\ v > 0
                   /\ (maxLimit > 0 => balance + v <= maxLimit)
                   /\ bets'[c][i] = bets[c][i] + v
                   /\ outcomes'[i + 1].totalBets = OutcomeAt(i).totalBets + v
                   /\ balance' = balance + v
                   /\ \A d \in Addr, j \in Index :
                         (d # c \/ j # i) => bets'[d][j] = bets[d][j]
                   /\ Len(outcomes') = Len(outcomes)
                   /\ \A j \in 1 .. Len(outcomes) :
                         j # i + 1 => outcomes'[j] = outcomes[j] ]_vars

\* a capped pool in which the second participant's bet was added next to the
\* first participant's stake on the other outcome
C11_Witness ==
    /\ maxLimit = 400
    /\ state = "Open"
    /\ Len(outcomes) = 2
    /\ bets["A"][0] = 100 /\ bets["A"][1] = 0
    /\ bets["B"][1] = 300 /\ bets["B"][0] = 0
    /\ OutcomeAt(0).totalBets = 100 /\ OutcomeAt(1).totalBets = 300
    /\ balance = 400

\* C12: in an open, unpaused pool with room for a bet, a placeBet that brings
\* the balance to exactly maxLimit (> 0) can be made, one that would bring it
\* to maxLimit + 1 cannot, and with maxLimit = 0 every such bet can be made.
C12_CapBoundary ==
    \A c \in Users, i \in Index :
       (poolOpen /\ ~paused /\ i < Len(outcomes) /\ nBets < MaxBets) =>
          /\ (maxLimit > 0 /\ balance + Stake[c] = maxLimit)
                => ENABLED placeBet(c, i, Stake[c])
          /\ (maxLimit > 0 /\ balance + Stake[c] = maxLimit + 1)
                => ~ENABLED placeBet(c, i, Stake[c])
          /\ maxLimit = 0 => ENABLED placeBet(c, i, Stake[c])

\* a pool capped at 400 was filled to exactly 400 by its latest bet
C12_Witness ==
    /\ maxLimit = 400
    /\ balance = 400
    /\ nBets = 2
    /\ SumTotalBets(outcomes) = 400

\* a state-guarded call: placeBet or extendDeadline, successful or reverting
GuardedCall ==
    \/ \E c \in Users, i \in 0 .. MaxOutcomes : \E v \in Amounts(c) : placeBet(c, i, v)
    \/ \E c \in Addr, d \in DaysToAdd : extendDeadline(c, d)
    \/ placeBetReverts
    \/ extendDeadlineReverts

\* C13 (as claimed, Scenario D): once the deadline has passed, a
\* state-guarded call (placeBet or extendDeadline) made on a pool whose stored
\* state is Open leaves the stored state Closed, so that the owner can resolve
\* without calling closeBetting.
C13_LazyClose ==
    [][ (state = "Open" /\ now >= deadline /\ GuardedCall) => state' = "Closed" ]_vars

\* C14: closeBetting succeeds exactly when the owner calls it on a pool whose
\* stored state is Open at or after the deadline; it then stores Closed and
\* changes nothing else; before the deadline and in Closed, Resolving or
\* Resolved no closeBetting step exists.
C14_CloseBetting ==
    /\ [][ \A c \in Addr :
             closeBetting(c) =>
                /\ state = "Open" /\ now >= deadline
                /\ state' = "Closed"
                /\ UNCHANGED <<resolved, paused, deadline, winningOutcomeIndex,
                               outcomes, bets, claimed, bettorsPerOutcome,
                               hasBettorBetOnOutcome, entropySequenceNumber,
                               randomNumber, balance, received>> ]_vars
    /\ [] ((state = "Open" /\ now >= deadline) <=> ENABLED closeBetting(Owner))

\* a pool holding stakes was closed at its deadline and is not yet resolved
C14_Witness ==
    /\ state = "Closed"
    /\ now >= deadline
    /\ ~resolved
    /\ balance > 0

\* a successful resolve transaction
ResolveStep ==
    \E c \in Addr, k \in 0 .. MaxOutcomes, v \in MsgValues, orc \in OracleReads,
       f \in EntropyFees, s \in SeqNums : resolve(c, k, v, orc, f, s)

\* C15: no resolve step exists unless the stored state is Closed and resolved
\* is false (so none in Open, Resolving or Resolved); the pool leaves Closed
\* only by a resolve step, to Resolving or Resolved, and never returns to Open
\* or Closed; winningOutcomeIndex changes only in that step: at most once.
C15_ResolveOnce ==
    /\ [][ /\ (state = "Closed" /\ state' # "Closed") =>
                 /\ ~resolved
                 /\ ResolveStep
                 /\ state' \in {"Resolving", "Resolved"}
           /\ winningOutcomeIndex' # winningOutcomeIndex =>
                 (state = "Closed" /\ state' # "Closed")
           /\ state \in {"Resolving", "Resolved"} =>
                 /\ state' \in {"Resolving", "Resolved"}
                 /\ winningOutcomeIndex' = winningOutcomeIndex ]_vars
    /\ [] (state # "Closed" \/ resolved => ~ENABLED ResolveStep)

\* a Single pool after its one resolve, which stored winner index 1
C15_Witness ==
    /\ state = "Resolving"
    /\ ~resolved
    /\ winningOutcomeIndex = 1

\* C16: in an owner-declared Proportional pool resolve(k) succeeds only for
\* k < number of outcomes and stores winningOutcomeIndex = k, state = Resolved
\* and resolved = true in that one step; for a Closed unresolved pool the
\* owner's resolve(k) step exists exactly for the valid indices k.
C16_OwnerDeclaredResolve ==
    /\ [][ (settlementType = "Wallet" /\ winnerType = "Proportional") =>
             \A c \in Addr, k \in 0 .. MaxOutcomes, v \in MsgValues,
                f \in EntropyFees, s \in SeqNums :
                resolve(c, k, v, [none |-> TRUE], f, s) =>
                   /\ k < Len(outcomes)
                   /\ winningOutcomeIndex' = k
                   /\ state' = "Resolved"
                   /\ resolved' ]_vars
    /\ [] ((settlementType = "Wallet" /\ winnerType = "Proportional"
             /\ state = "Closed" /\ ~resolved) =>
              \A k \in 0 .. MaxOutcomes :
                 (k < Len(outcomes)) <=>
                    ENABLED resolve(Owner, k, 0, [none |-> TRUE], 1, 1))

\* the owner declared the second of two outcomes the winner
C16_Witness ==
    /\ settlementType = "Wallet"
    /\ winnerType = "Proportional"
    /\ state = "Resolved"
    /\ resolved
    /\ winningOutcomeIndex = 1
    /\ Len(outcomes) = 2

\* a reverting transaction of any function
RevertStep ==
    \/ addOutcomeReverts \/ removeOutcomeReverts \/ placeBetReverts
    \/ closeBettingReverts \/ togglePauseReverts \/ extendDeadlineReverts
    \/ resolveReverts \/ entropyCallbackReverts
    \/ claimWinningsReverts \/ withdrawBetReverts

\* C17: a transaction that fails leaves state, flags, deadline, outcomes,
\* stakes, participant lists, winner index, request record, balance and the
\* amounts paid out exactly as they were (a failing poolOpen-guarded call
\* included); and in a push-oracle pool no resolve step exists whose attached
\* value is below the quoted update fee (Scenario E).
C17_FailureChangesNothing ==
    /\ [][ RevertStep => UNCHANGED <<storage, balance, received>> ]_vars
    /\ [] (settlementType = "Pyth" =>
             \A v \in MsgValues, orc \in OracleReads :
                v < orc.updateFee =>
                   ~ENABLED (\E c \in Addr, k \in 0 .. MaxOutcomes,
                                f \in EntropyFees, s \in SeqNums :
                                resolve(c, k, v, orc, f, s)))

\* a transaction has just reverted on a Closed, unresolved push-oracle pool
\* that holds stakes: the position of Scenario E
C17_Witness ==
    /\ lastReverted
    /\ settlementType = "Pyth"
    /\ state = "Closed"
    /\ ~resolved
    /\ balance > 0

\* C18: in a Single pool a successful resolve finds the contract balance (the
\* attached value included, the oracle update fee deducted) at least the
\* randomness fee, pays the fee out of it, stores the returned sequence number
\* and leaves state Resolving with resolved false; the sequence number is
\* written by no other step, and no resolve step exists in Resolving or
\* Resolved, so at most one request is ever issued.
C18_SingleRequestsRandomnessOnce ==
    /\ [][ winnerType = "Single" =>
             \A c \in Addr, k \in 0 .. MaxOutcomes, v \in MsgValues,
                orc \in OracleReads, f \in EntropyFees, s \in SeqNums :
                resolve(c, k, v, orc, f, s) =>
                   LET held == balance + v
                                 - (IF settlementType = "Pyth" THEN orc.updateFee ELSE 0)
                   IN /\ held >= f
                      /\ balance' = held - f
                      /\ entropySequenceNumber' = s
                      /\ state' = "Resolving"
                      /\ ~resolved' ]_vars
    /\ [][ entropySequenceNumber' # entropySequenceNumber =>
             (state = "Closed" /\ state' = "Resolving") ]_vars
    /\ [] (state \in {"Resolving", "Resolved"} => ~ENABLED ResolveStep)

\* a Single pool holding 400 in stakes paid the fee of 1 for its request
C18_Witness ==
    /\ winnerType = "Single"
    /\ state = "Resolving"
    /\ ~resolved
    /\ entropySequenceNumber = 1
    /\ SumTotalBets(outcomes) = 400
    /\ balance = 399

\* C19: a callback is accepted only in Resolving with resolved false and with
\* the stored sequence number and the provider given at deployment; it stores
\* the random value, state Resolved and resolved true and nothing else; the
\* random value is written by no other step; for a wrong sequence number or
\* provider, or in Open, Closed or Resolved, no callback step exists.
C19_Callback ==
    /\ [][ \A s \in CallbackSeqNums, p \in Providers, r \in Randoms :
             entropyCallback(s, p, r) =>
                /\ state = "Resolving" /\ ~resolved
                /\ s = entropySequenceNumber /\ p = Provider
                /\ randomNumber' = r
                /\ state' = "Resolved"
                /\ resolved'
                /\ UNCHANGED <<paused, deadline, winningOutcomeIndex, outcomes,
                               bets, claimed, bettorsPerOutcome,
                               hasBettorBetOnOutcome, entropySequenceNumber,
                               balance, received>> ]_vars
    /\ [][ randomNumber' # randomNumber =>
             (state = "Resolving" /\ state' = "Resolved") ]_vars
    /\ [] (\A s \in CallbackSeqNums, p \in Providers, r \in Randoms :
             (\/ state # "Resolving" \/ resolved
              \/ s # entropySequenceNumber \/ p # Provider)
             => ~ENABLED entropyCallback(s, p, r))

\* the callback delivered the random value 2 and resolved the pool
C19_Witness ==
    /\ winnerType = "Single"
    /\ state = "Resolved"
    /\ resolved
    /\ randomNumber = 2
    /\ entropySequenceNumber = 1

\* C20: from Resolving the stored state changes only by an accepted callback;
\* while the pool is Resolving no step moves funds, and no resolve,
\* closeBetting, withdrawBet, claimWinnings or placeBet step exists.
C20_StuckInResolving ==
    /\ [][ state = "Resolving" =>
             /\ state' # state =>
                   \E s \in CallbackSeqNums, p \in Providers, r \in Randoms :
                      entropyCallback(s, p, r)
             /\ balance' = balance
             /\ received' = received ]_vars
    /\ [] (state = "Resolving" =>
             /\ ~ENABLED ResolveStep
             /\ ~ENABLED (\E c \in Addr : closeBetting(c))
             /\ ~ENABLED (\E c \in Addr : WithdrawStep(c))
             /\ ~ENABLED (\E c \in Addr : ClaimStep(c))
             /\ ~ENABLED (\E c \in Users, i \in 0 .. MaxOutcomes :
                             \E v \in Amounts(c) : placeBet(c, i, v)))

\* a Resolving pool that holds both participants' stakes, none of them paid
\* back, with room left for a further bet
C20_Witness ==
    /\ state = "Resolving"
    /\ \A c \in Users : \E i \in Index : bets[c][i] > 0
    /\ \A c \in Addr : received[c] = 0
    /\ balance > 0

RECURSIVE SumSeq(_)
SumSeq(q) == IF q = <<>> THEN 0 ELSE Head(q) + SumSeq(Tail(q))

\* a successful entropyCallback transaction
CallbackStep ==
    \E s \in CallbackSeqNums, p \in Providers, r \in Randoms : entropyCallback(s, p, r)

\* C21 (as claimed): while the pool is Resolving, every step other than the
\* callback leaves the outcome list, the stakes, the participant lists, the
\* paused flag, the deadline, the winner index and the balance unchanged.
C21_ResolvingFrozen ==
    [][ (state = "Resolving" /\ ~CallbackStep) =>
           UNCHANGED <<outcomes, bets, bettorsPerOutcome, hasBettorBetOnOutcome,
                       paused, deadline, winningOutcomeIndex, balance>> ]_vars

\* C22 (as claimed): in every reachable state the entries getProbabilities
\* returns sum to at most 10000 (each entry being floor(totalBets * 10000 /
\* balance) for a positive balance and the declared prior for a zero balance).
C22_ProbabilitiesSum ==
    /\ \A j \in 1 .. Len(outcomes) :
          getProbabilities[j] =
             IF balance > 0 THEN (outcomes[j].totalBets * 10000) \div balance
             ELSE outcomes[j].initialProbability
    /\ SumSeq(getProbabilities) <= 10000

\* a successful addOutcome transaction
AddOutcomeStep ==
    \E c \in Addr, p \in Priors, v \in Values : addOutcome(c, p, v)

\* C23 (as claimed): addOutcome succeeds only while the stored state is Open,
\* and the outcome list does not grow once the pool is Closed, Resolving or
\* Resolved.
C23_AddOutcomeOnlyOpen ==
    [][ /\ AddOutcomeStep => state = "Open"
        /\ state # "Open" => Len(outcomes') <= Len(outcomes) ]_vars

\* an admin transaction sent by c
AdminStep(c) ==
    \/ \E p \in Priors, v \in Values : addOutcome(c, p, v)
    \/ \E i \in 0 .. MaxOutcomes : removeOutcome(c, i)
    \/ closeBetting(c)
    \/ togglePause(c)
    \/ \E d \in DaysToAdd : extendDeadline(c, d)
    \/ \E k \in 0 .. MaxOutcomes, v \in MsgValues, orc \in OracleReads,
          f \in EntropyFees, s \in SeqNums : resolve(c, k, v, orc, f, s)

\* C24: for a caller other than the owner given at deployment no addOutcome,
\* removeOutcome, closeBetting, resolve, togglePause or extendDeadline step
\* exists, in any reachable state (the owner is written by the constructor
\* only).
C24_OnlyOwner ==
    \A c \in Addr \ {Owner} : ~ENABLED AdminStep(c)

\* the owner has added an outcome, extended the deadline, closed and paused
\* the pool: states in which a participant's admin call would matter
C24_Witness ==
    /\ Len(outcomes) = 2
    /\ deadline = 2 * Day
    /\ state = "Closed"
    /\ paused
    /\ balance > 0

\* some placeBet / claimWinnings / withdrawBet call passes its requires
CanBet ==
    \E c \in Users, i \in 0 .. MaxOutcomes : \E v \in Amounts(c) :
       placeBetRequires(c, i, v)
CanClaim == \E c \in Addr, a \in BOOLEAN : claimWinningsRequires(c, a)
CanWithdraw == \E c \in Addr, a \in BOOLEAN : withdrawBetRequires(c, a)

\* the transactions other than placeBet and togglePause
OtherCalls ==
    {"withdrawBet", "claimWinnings", "closeBetting", "resolve", "callback",
     "addOutcome", "removeOutcome", "extendDeadline"}

CanCall(op) ==
    CASE op = "withdrawBet" -> CanWithdraw
      [] op = "claimWinnings" -> CanClaim
      [] op = "closeBetting" -> \E c \in Addr : closeBettingRequires(c)
      [] op = "resolve" ->
            \E c \in Addr, k \in 0 .. MaxOutcomes, v \in MsgValues,
               orc \in OracleReads, f \in EntropyFees :
               resolveRequires(c, k, v, orc, f)
      [] op = "callback" ->
            \E q \in CallbackSeqNums, p \in Providers :
               entropyCallbackRequires(q, p)
      [] op = "addOutcome" -> \E c \in Addr, p \in Priors : addOutcomeRequires(c, p)
      [] op = "removeOutcome" ->
            \E c \in Addr, i \in 0 .. MaxOutcomes : removeOutcomeRequires(c, i)
      [] op = "extendDeadline" -> \E c \in Addr : extendDeadlineRequires(c)

\* C25: the owner's togglePause step exists in every reachable state and
\* changes the paused flag only; while paused no placeBet step exists; and a
\* togglePause step neither enables nor disables any other transaction.
C25_Pause ==
    /\ [] ENABLED togglePause(Owner)
    /\ [] (paused => ~CanBet)
    /\ [][ togglePause(Owner) =>
             /\ paused' = ~paused
             /\ UNCHANGED <<state, resolved, deadline, winningOutcomeIndex,
                            outcomes, bets, claimed, bettorsPerOutcome,
                            hasBettorBetOnOutcome, entropySequenceNumber,
                            randomNumber, balance, received>>
             /\ \A op \in OtherCalls : CanCall(op)' = CanCall(op) ]_vars

\* a pool that is paused and Resolved: paused after betting was over, with a
\* winner's claim paid while paused
C25_Witness ==
    /\ paused
    /\ state = "Resolved"
    /\ \E c \in Users : claimed[c] /\ received[c] > 0

\* C26: the deadline changes only by an extendDeadline step taken in stored
\* state Open before the current deadline, which adds whole days and leaves
\* the state Open; the deadline never decreases; once the deadline has
\* passed, or in Closed, Resolving or Resolved, no extendDeadline step exists.
C26_ExtendDeadline ==
    /\ [][ /\ deadline' >= deadline
           /\ deadline' # deadline =>
                 /\ state = "Open" /\ now < deadline
                 /\ \E d \in DaysToAdd :
                       extendDeadline(Owner, d) /\ deadline' = deadline + d * Day
                 /\ state' = "Open" ]_vars
    /\ [] ((state # "Open" \/ now >= deadline) =>
             ~ENABLED (\E c \in Addr, d \in DaysToAdd : extendDeadline(c, d)))

\* a pool whose deadline was extended by a day and has since been closed
C26_Witness ==
    /\ deadline = 2 * Day
    /\ now >= deadline
    /\ state = "Closed"

\* C27 (as claimed): the balance changes only by a placeBet step (up by the
\* stake), a withdrawBet or claimWinnings step (down by the amount paid) or
\* the randomness fee paid by a Single pool's resolve (down by the fee);
\* every other step, a resolve with attached value included, leaves it as it
\* was.
C27_BalanceWriters ==
    [][ \/ balance' = balance
        \/ \E c \in Users, i \in 0 .. MaxOutcomes : \E v \in Amounts(c) :
              placeBet(c, i, v) /\ balance' = balance + v
        \/ \E c \in Addr :
              /\ WithdrawStep(c) \/ ClaimStep(c)
              /\ balance' = balance - (received'[c] - received[c])
        \/ \E f \in EntropyFees :
              ResolveStep /\ winnerType = "Single" /\ balance' = balance - f ]_vars

\* C28: in no reachable state can two of placeBet, withdrawBet and
\* claimWinnings succeed; and once a claim or withdrawal has been paid no
\* placeBet can succeed any more.
C28_BetClaimWithdrawDisjoint ==
    /\ ~(CanBet /\ CanClaim)
    /\ ~(CanBet /\ CanWithdraw)
    /\ ~(CanClaim /\ CanWithdraw)
    /\ paidOut => ~CanBet

\* a withdrawal was paid while another participant's stake is still in the
\* unpaused pool: a bet now would race the remaining withdrawal
C28_Witness ==
    /\ state = "Closed"
    /\ ~paused
    /\ \E c \in Users : received[c] > 0
    /\ CanWithdraw

\* C30: removeOutcome(i) succeeds only for i < number of outcomes; it puts
\* the former last outcome at index i, drops the last position and leaves
\* every other index, all stakes and all participant lists as they were, so
\* that what is recorded under index i now belongs to the former last
\* outcome; for i out of range no removeOutcome step exists.
C30_RemoveOutcome ==
    /\ [][ \A c \in Addr, i \in 0 .. MaxOutcomes :
             (outcomes' # outcomes /\ removeOutcome(c, i)) =>
                /\ i < Len(outcomes)
                /\ Len(outcomes') = Len(outcomes) - 1
                /\ i < Len(outcomes) - 1 => outcomes'[i + 1] = outcomes[Len(outcomes)]
                /\ \A j \in 1 .. Len(outcomes) - 1 :
                      j # i + 1 => outcomes'[j] = outcomes[j]
                /\ UNCHANGED <<bets, bettorsPerOutcome, hasBettorBetOnOutcome,
                               state, winningOutcomeIndex, balance>> ]_vars
    /\ [] (\A i \in 0 .. MaxOutcomes :
             i >= Len(outcomes) => ~ENABLED removeOutcome(Owner, i))

\* A staked 100 on outcome 0 and B 300 on outcome 1; outcome 0 was removed,
\* so index 0 now holds the outcome with total 300 and A's stake of 100
C30_Witness ==
    /\ Len(outcomes) = 1
    /\ OutcomeAt(0).totalBets = 300
    /\ bets["A"][0] = 100
    /\ bets["B"][1] = 300
    /\ bettorsPerOutcome[0] = <<"A">>

\* C29: claimWinnings writes the caller's claimed flag before the outbound
\* transfer: while the transfer of a claim to c is in progress, whatever
\* calls are made from inside it, claimed[c] is set and c has been paid
\* exactly the one payout computed before the call; a claimWinnings made
\* again by c from inside the transfer reverts and moves no money; and when
\* the transfer fails the claim is undone, claimed[c] is false again and
\* balance and payments are what they were before the call.
C29_ClaimReentrancy ==
    /\ [](inTransfer # "none" =>
            (preCall.call = "claimWinnings" =>
               LET c == inTransfer
                   w == preCall.winningOutcomeIndex
                   payout == IF winnerType = "Proportional"
                             THEN (preCall.bets[c][w] * preCall.balance)
                                      \div preCall.outcomes[w + 1].totalBets
                             ELSE preCall.balance
               IN /\ ~preCall.claimed[c]
                  /\ claimed[c]
                  /\ received[c] = preCall.received[c] + payout))
    /\ [][inTransfer # "none" =>
            (preCall.call = "claimWinnings" =>
               \A c \in Addr :
                  /\ (\E a \in BOOLEAN : claimWinningsReentered(c, a)) =>
                         /\ lastReverted'
                         /\ UNCHANGED <<claimed, balance, received>>
                  /\ claimWinningsReturn(c, FALSE) =>
                         /\ ~claimed'[c]
                         /\ balance' = preCall.balance
                         /\ received' = preCall.received)]_vars

\* C29 witness: the recipient's second claimWinnings, made from inside the
\* transfer of a claim that left money in the pool, has just reverted.
C29_Witness ==
    /\ inTransfer # "none"
    /\ preCall.call = "claimWinnings"
    /\ lastReverted
    /\ balance > 0
    /\ claimed[inTransfer]
    /\ received[inTransfer] > 0

\* ------------------------------------------------------ participant lists
\* the identities in a list, and whether p is the beginning of q
Members(q) == {q[k] : k \in 1 .. Len(q)}
IsPrefix(p, q) == Len(p) <= Len(q) /\ SubSeq(q, 1, Len(p)) = p

\* C31: every participant list holds each identity at most once and holds
\* exactly the identities flagged for its index; a list changes only by a
\* placeBet step on its index, which appends the caller, a caller that was
\* not yet in it (so no entry is ever removed or moved); and after every
\* placeBet step on index i the caller is in the list of i.
C31_ParticipantLists ==
    /\ [](\A i \in Index :
            /\ Cardinality(Members(bettorsPerOutcome[i])) = Len(bettorsPerOutcome[i])
            /\ Members(bettorsPerOutcome[i]) = hasBettorBetOnOutcome[i])
    /\ [][\A i \in Index :
            /\ IsPrefix(bettorsPerOutcome[i], bettorsPerOutcome'[i])
            /\ bettorsPerOutcome'[i] # bettorsPerOutcome[i] =>
                  \E c \in Users : \E v \in Amounts(c) :
                     /\ placeBet(c, i, v)
                     /\ c \notin Members(bettorsPerOutcome[i])
                     /\ bettorsPerOutcome'[i] = Append(bettorsPerOutcome[i], c)]_vars
    /\ [][nBets' # nBets =>
            \A c \in Users, i \in Index : \A v \in Amounts(c) :
               placeBet(c, i, v) => c \in Members(bettorsPerOutcome'[i])]_vars

\* A has bet twice on index 0 and is in its list once
C31_Witness ==
    /\ bets["A"][0] = 2 * Stake["A"]
    /\ bettorsPerOutcome[0] = <<"A">>

\* C32 (as claimed): whenever resolved is true, winningOutcomeIndex is an
\* index of the current outcome list, and it does not change afterwards.
C32_WinnerIndexValid ==
    /\ [](resolved => winningOutcomeIndex < Len(outcomes))
    /\ [][resolved => winningOutcomeIndex' = winningOutcomeIndex]_vars

\* ------------------------------------------------------- oracle settlement
\* |value_j - x| for the outcome at index j
Distance(j, x) ==
    IF x > OutcomeAt(j).value THEN x - OutcomeAt(j).value
    ELSE OutcomeAt(j).value - x

\* C33: a resolve step of an oracle-settled pool with a non-empty outcome
\* list stores an index of the list whose value is as close to the oracle
\* value as that of any outcome, and every outcome at a smaller index is
\* strictly farther.
C33_ClosestOutcome ==
    [][(/\ settlementType # "Wallet"
        /\ state = "Closed" /\ state' # "Closed" /\ Len(outcomes) > 0) =>
         \A orc \in OracleReads :
            (\E c \in Addr, k \in 0 .. MaxOutcomes, v \in MsgValues,
                f \in EntropyFees, s \in SeqNums : resolve(c, k, v, orc, f, s)) =>
               LET x == OracleValue(orc)
                   w == winningOutcomeIndex'
               IN /\ w < Len(outcomes)
                  /\ \A j \in 0 .. Len(outcomes) - 1 :
                        /\ Distance(w, x) <= Distance(j, x)
                        /\ j < w => Distance(j, x) > Distance(w, x)]_vars

\* a pull-oracle pool settled on two outcomes at equal distance from the
\* oracle value (10 and 20 are both 5 away from 15), the first one winning
C33_Witness ==
    /\ settlementType = "Chronicle"
    /\ resolved
    /\ Len(outcomes) = 2
    /\ OutcomeAt(0).value # OutcomeAt(1).value
    /\ Distance(0, 15) = Distance(1, 15)
    /\ winningOutcomeIndex = 0

\* C34 (as claimed): in a resolve step of a push-oracle pool the converted
\* price is the number m * 10^(-e) for a negative exponent e and
\* floor(m / 10^e) otherwise, for every mantissa m the oracle returned.
C34_PriceConversion ==
    [][(settlementType = "Pyth" /\ state = "Closed" /\ state' # "Closed") =>
         \A orc \in OracleReads :
            (\E c \in Addr, k \in 0 .. MaxOutcomes, v \in MsgValues,
                f \in EntropyFees, s \in SeqNums : resolve(c, k, v, orc, f, s)) =>
               LET m == orc.price
                   e == orc.expo
               IN OracleValue(orc) =
                     IF e < 0 THEN m * Pow10(-e) ELSE m \div Pow10(e)]_vars

\* ------------------------------------------------------------------ ledger
\* the stakes recorded under index i, over all identities
StakedOn(i) == SumOver([a \in Addr |-> bets[a][i]], Addr)

\* C35 (as claimed): for every index i of the outcome list,
\* outcomes[i].totalBets is the sum of all identities' recorded stakes on i.
C35_LedgerConsistent ==
    \A i \in Index : i < Len(outcomes) => OutcomeAt(i).totalBets = StakedOn(i)

\* C36 (as claimed): while the pool is Closed and unresolved, every identity
\* with a recorded stake can withdraw (its transfer being accepted), and the
\* withdrawal returns all of its recorded stakes.
C36_WithdrawAlwaysPossible ==
    (state = "Closed" /\ ~resolved) =>
        \A c \in Users :
            SumOver(bets[c], Index) > 0 =>
                /\ withdrawBetRequires(c, TRUE)
                /\ WithdrawTotal(c) = SumOver(bets[c], Index)

\* C37 (as claimed): in a Single pool that is Resolved with a positive
\* balance, the winning outcome has participants, the selected one holds a
\* positive stake on it, and exactly one identity can claim.
C37_SingleWinnerCanClaim ==
    (winnerType = "Single" /\ state = "Resolved" /\ balance > 0) =>
        /\ Len(bettorsPerOutcome[winningOutcomeIndex]) > 0
        /\ bets[selectRandomWinner][winningOutcomeIndex] > 0
        /\ Cardinality({c \in Addr : claimWinningsRequires(c, TRUE)}) = 1

\* C38 (as claimed): a withdrawBet step leaves the caller without a recorded
\* stake at any index, and no identity that has been paid a withdrawal takes
\* a claimWinnings step later (a payment received before a claim can only be
\* a withdrawal).
C38_WithdrawThenNoClaim ==
    /\ [][\A c \in Addr : WithdrawStep(c) => \A i \in Index : bets'[c][i] = 0]_vars
    /\ [][\A c \in Addr : ClaimStep(c) => received[c] = 0]_vars

\* nobody holds a stake on the winning index of a Resolved pool
NoWinningStake ==
    /\ state = "Resolved"
    /\ \A c \in Addr : bets[c][winningOutcomeIndex] = 0

\* C39: from a Resolved pool in which no identity holds a stake on the
\* winning index, no withdrawBet and no claimWinnings can succeed, every step
\* leaves the balance at least what it was, and the pool stays in that
\* condition.
C39_FundsStuck ==
    /\ [](NoWinningStake => ~CanWithdraw /\ ~CanClaim)
    /\ [][NoWinningStake => (balance' >= balance /\ NoWinningStake')]_vars

\* a Resolved pool that still holds stakes, none of them on the winning
\* index, after an admin step taken in that condition
C39_Witness ==
    /\ NoWinningStake
    /\ balance > 0
    /\ resolved
    /\ \E c \in Users : \E i \in Index : bets[c][i] > 0
    /\ paused

\* ------------------------------------------- the legacy PredictionPool
\* The legacy contract's functions, as functions of its storage L (a record
\* of state, resolved, paused, deadline, winningOutcomeIndex, outcomes, bets,
\* claimed and balance); owner and maxLimit are the constructor arguments.

\* struct PredictionOutcome { name; totalBets; initialProbability }
LegacyOutcome(o) ==
    [totalBets |-> o.totalBets, initialProbability |-> o.initialProbability]

\* the legacy storage that corresponds to the storage of this contract
LegacyView ==
    [state |-> state, resolved |-> resolved, paused |-> paused,
     deadline |-> deadline, winningOutcomeIndex |-> winningOutcomeIndex,
     outcomes |-> [j \in 1 .. Len(outcomes) |-> LegacyOutcome(outcomes[j])],
     bets |-> bets, claimed |-> claimed, balance |-> balance]

\* modifier poolOpen: the state it leaves before its require
LegacyPoolOpenState(L) ==
    IF L.state = "Open" /\ now >= L.deadline THEN "Closed" ELSE L.state

LegacyAddOutcomeRequires(L, c, p) == c = Owner /\ p <= BpsMax

LegacyAddOutcome(L, c, p) ==
    [L EXCEPT !.outcomes = Append(@, [totalBets |-> 0, initialProbability |-> p])]

LegacyRemoveOutcomeRequires(L, c, i) == c = Owner /\ i < Len(L.outcomes)

LegacyRemoveOutcome(L, c, i) ==
    LET os == L.outcomes
        moved == [os EXCEPT ![i + 1] = os[Len(os)]]
    IN [L EXCEPT !.outcomes = SubSeq(moved, 1, Len(os) - 1)]

LegacyPlaceBetRequires(L, c, i, v) ==
    /\ LegacyPoolOpenState(L) = "Open"
    /\ ~L.paused
    /\ i < Len(L.outcomes)
    /\ v > 0
    /\ maxLimit > 0 => L.balance + v <= maxLimit

LegacyPlaceBet(L, c, i, v) ==
    [L EXCEPT !.state = LegacyPoolOpenState(L),
              !.bets[c][i] = @ + v,
              !.outcomes[i + 1].totalBets = @ + v,
              !.balance = @ + v]

LegacyCloseBettingRequires(L, c) ==
    c = Owner /\ L.state = "Open" /\ now >= L.deadline

LegacyCloseBetting(L, c) == [L EXCEPT !.state = "Closed"]

\* resolve(uint256) is not payable: a call with value attached reverts
LegacyResolveRequires(L, c, k, v) ==
    /\ v = 0
    /\ c = Owner
    /\ L.state = "Closed"
    /\ ~L.resolved
    /\ k < Len(L.outcomes)

LegacyResolve(L, c, k) ==
    [L EXCEPT !.winningOutcomeIndex = k, !.state = "Resolved", !.resolved = TRUE]

LegacyPayout(L, c) ==
    (L.bets[c][L.winningOutcomeIndex] * L.balance)
        \div L.outcomes[L.winningOutcomeIndex + 1].totalBets

LegacyClaimWinningsRequires(L, c, accepts) ==
    /\ L.state = "Resolved"
    /\ ~L.claimed[c]
    /\ L.bets[c][L.winningOutcomeIndex] > 0
    /\ L.winningOutcomeIndex < Len(L.outcomes)
    /\ L.outcomes[L.winningOutcomeIndex + 1].totalBets # 0
    /\ LegacyPayout(L, c) <= L.balance
    /\ accepts

LegacyClaimWinnings(L, c) ==
    [L EXCEPT !.claimed[c] = TRUE, !.balance = @ - LegacyPayout(L, c)]

LegacyWithdrawIndices(L) == {i \in Index : i < Len(L.outcomes)}

LegacyWithdrawTotal(L, c) == SumOver(L.bets[c], LegacyWithdrawIndices(L))

LegacyWithdrawBetRequires(L, c, accepts) ==
    /\ L.state = "Closed"
    /\ ~L.resolved
    /\ \A i \in LegacyWithdrawIndices(L) :
          L.bets[c][i] <= L.outcomes[i + 1].totalBets
    /\ LegacyWithdrawTotal(L, c) > 0
    /\ LegacyWithdrawTotal(L, c) <= L.balance
    /\ accepts

LegacyWithdrawBet(L, c) ==
    [L EXCEPT !.bets[c] = [i \in Index |->
                             IF i \in LegacyWithdrawIndices(L) THEN 0 ELSE @[i]],
              !.outcomes = [j \in 1 .. Len(@) |->
                             [@[j] EXCEPT !.totalBets = @ - L.bets[c][j - 1]]],
              !.balance = @ - LegacyWithdrawTotal(L, c)]

LegacyTogglePauseRequires(L, c) == c = Owner

LegacyTogglePause(L, c) == [L EXCEPT !.paused = ~@]

LegacyExtendDeadlineRequires(L, c) ==
    c = Owner /\ LegacyPoolOpenState(L) = "Open"

LegacyExtendDeadline(L, c, d) ==
    [L EXCEPT !.state = LegacyPoolOpenState(L), !.deadline = @ + d * Day]

\* every call of the shared interface passes its requires in this contract
\* exactly when it does in the legacy contract holding the same storage
SameRequires ==
    LET L == LegacyView
    IN /\ \A c \in Addr, p \in Priors :
             addOutcomeRequires(c, p) <=> LegacyAddOutcomeRequires(L, c, p)
       /\ \A c \in Addr, i \in 0 .. MaxOutcomes :
             removeOutcomeRequires(c, i) <=> LegacyRemoveOutcomeRequires(L, c, i)
       /\ \A c \in Users, i \in 0 .. MaxOutcomes : \A v \in Amounts(c) :
             placeBetRequires(c, i, v) <=> LegacyPlaceBetRequires(L, c, i, v)
       /\ \A c \in Addr :
             /\ closeBettingRequires(c) <=> LegacyCloseBettingRequires(L, c)
             /\ onlyOwner(c) <=> LegacyTogglePauseRequires(L, c)
             /\ extendDeadlineRequires(c) <=> LegacyExtendDeadlineRequires(L, c)
       /\ \A c \in Addr, a \in BOOLEAN :
             /\ claimWinningsRequires(c, a) <=> LegacyClaimWinningsRequires(L, c, a)
             /\ withdrawBetRequires(c, a) <=> LegacyWithdrawBetRequires(L, c, a)
       /\ \A c \in Addr, k \in 0 .. MaxOutcomes, v \in MsgValues,
             orc \in OracleReads, f \in EntropyFees :
             resolveRequires(c, k, v, orc, f) <=> LegacyResolveRequires(L, c, k, v)

\* every successful call leaves the storage the legacy function would leave
SameEffects ==
    LET L == LegacyView
    IN /\ \A c \in Addr, p \in Priors, v \in Values :
             addOutcome(c, p, v) => LegacyView' = LegacyAddOutcome(L, c, p)
       /\ \A c \in Addr, i \in 0 .. MaxOutcomes :
             removeOutcome(c, i) => LegacyView' = LegacyRemoveOutcome(L, c, i)
       /\ \A c \in Users, i \in 0 .. MaxOutcomes : \A v \in Amounts(c) :
             placeBet(c, i, v) => LegacyView' = LegacyPlaceBet(L, c, i, v)
       /\ \A c \in Addr :
             /\ closeBetting(c) => LegacyView' = LegacyCloseBetting(L, c)
             /\ togglePause(c) => LegacyView' = LegacyTogglePause(L, c)
             /\ \A d \in DaysToAdd :
                   extendDeadline(c, d) => LegacyView' = LegacyExtendDeadline(L, c, d)
             /\ ClaimStep(c) => LegacyView' = LegacyClaimWinnings(L, c)
             /\ WithdrawStep(c) => LegacyView' = LegacyWithdrawBet(L, c)
       /\ \A c \in Addr, k \in 0 .. MaxOutcomes, v \in MsgValues,
             orc \in OracleReads, f \in EntropyFees, s \in SeqNums :
             resolve(c, k, v, orc, f, s) => LegacyView' = LegacyResolve(L, c, k)

\* C40 (as claimed): run on the same calls, the legacy contract and an
\* owner-declared Proportional pool accept the same calls and keep equal
\* state, resolved, winningOutcomeIndex, balance, totals, stakes and claimed
\* flags; Resolving is never reached.
C40_LegacyEquivalent ==
    /\ [](SameRequires /\ state # "Resolving")
    /\ [][SameEffects]_vars

====
